---------------------------- MODULE Spec2Model ----------------------------
(***************************************************************************)
(* Execution-control core of the LLM visibility service:                   *)
(*   - CircuitBreakerService   (libs/circuit-breaker-module/index.ts)      *)
(*   - RateLimiterService      (libs/rate-limiter-module/index.ts)         *)
(*   - LLMVisibilityService    (services/llm-visibility.service.ts)        *)
(*   - RunRepository & co.     (llm-visibility.repositories.ts)            *)
(* Each component has its own specification over one shared set of         *)
(* variables; a component that a specification does not exercise stays in  *)
(* its initial state.                                                      *)
(***************************************************************************)
EXTENDS Integers, Sequences, FiniteSets

VARIABLES
    now,          \* Date.now(), in abstract time units
    \* ---- CircuitBreakerService
    configs,      \* this.configs : serviceName -> CircuitBreakerConfig
    circuits,     \* this.circuits: serviceName -> CircuitStats
    cbCalls,      \* execute() invocations: slot -> call record
    cbStreak,     \* history: failed executions since the last successful one
    cbOpenedAt,   \* history: time at which the circuit last became OPEN
    \* ---- RateLimiterService, one instance per worker process, one shared store
    useDistributed, \* process -> this.useDistributed (a Redis client was there at startup)
    rlConfig,     \* configuration of the 'openai' limiters (distributed and local)
    ledger,       \* the shared store's key ratelimit:openai:global
    redisUp,      \* the shared store is reachable
    rlCalls,      \* process -> slot -> scheduleWithDistributedLimit invocation
    rlQueue,      \* process -> queue of the local limiter: slots in arrival order
    winDispatched, \* history: fn dispatches during the ledger's current window
    \* ---- LLMVisibilityService.createRun and the collections it reads and writes
    runs,         \* the runs collection, in insertion order; _id = position
    promptDocs,   \* the prompts collection: multiset of texts (text -> number of documents)
    brandDocs,    \* the brands collection: multiset of names
    crCalls,      \* createRun invocations: slot -> call record
    keyReturned,  \* history: idempotency key -> ids returned by completed calls with that key
    lastReturn,   \* history: the call that settled in the last step, and what it returned
    \* ---- LLMVisibilityService.processRun, for one run
    prRun,        \* the run document
    prPc,         \* processRun's position
    units,        \* prompt-model pair -> processPromptModelPair's local state
    responses,    \* the responses collection: pair -> number of records per status
    delays,       \* history: the delays of one unit's successive retries, in ms
    hashed        \* history: the dtos generateContentHash was applied to, with its results

cbVars == <<configs, circuits, cbCalls, cbStreak, cbOpenedAt>>
rlVars == <<useDistributed, rlConfig, ledger, redisUp, rlCalls, rlQueue, winDispatched>>
ddVars == <<runs, promptDocs, brandDocs, crCalls, keyReturned, lastReturn>>
prVars == <<prRun, prPc, units, responses>>
vars == <<now, configs, circuits, cbCalls, cbStreak, cbOpenedAt,
          useDistributed, rlConfig, ledger, redisUp, rlCalls, rlQueue, winDispatched,
          runs, promptDocs, brandDocs, crCalls, keyReturned, lastReturn,
          prRun, prPc, units, responses, delays, hashed>>

(***************************************************************************)
(* Bounds of the model.                                                    *)
(***************************************************************************)
MaxNow == 5
MaxRLNow == 3
MaxThreshold == 2
MaxCBCalls == 2
MaxProcs == 2
MaxRLCalls == 2
MaxPoints == 2
MaxConcurrent == 2
RetryBudget == 1
MaxDDNow == 3
MaxCRCalls == 2
MaxRuns == 2
MaxKeys == 1
MaxTexts == 2
MaxListLen == 2
MaxPrompts == 2
MaxModels == 1
MaxRetryAttempts == 2
MaxConcurrencyLimit == 2
MaxAttempt == 6
MaxHashed == 2

(***************************************************************************)
(*                          CircuitBreakerService                          *)
(***************************************************************************)
Services == {"openai"}
CBSlots == 1..MaxCBCalls
OpResults == {"r1", "r2"}
OpErrors == {"e1", "e2"}
CircuitOpenError == "Circuit breaker is OPEN"

\* registerCircuit: the record a newly registered service starts with.
\* lastFailureTime is undefined there; every read is (lastFailureTime || 0).
registerCircuit == [failures |-> 0, successes |-> 0, lastFailureTime |-> 0, state |-> "CLOSED"]

\* The configurations a circuit is registered with.
CircuitBreakerConfig ==
    [failureThreshold : 1..MaxThreshold, successThreshold : 1..MaxThreshold,
     timeout : {2}, windowSize : {1, 3}]

\* Mutant of executeRejects: the call made exactly at the timeout is rejected.
executeRejects_strict(circuit, config, t) ==
    circuit.state = "OPEN" /\ ~(t - circuit.lastFailureTime > config.timeout)

\* execute, lines 78-93: is the call rejected?  (state OPEN and timeout not elapsed)
executeRejects(circuit, config, t) ==
    circuit.state = "OPEN" /\ ~(t - circuit.lastFailureTime >= config.timeout)

\* execute, lines 78-93: the circuit record after the admission check.
executeAdmit(circuit, config, t) ==
    IF circuit.state = "OPEN" /\ t - circuit.lastFailureTime >= config.timeout
    THEN [circuit EXCEPT !.state = "HALF_OPEN", !.successes = 0]
    ELSE circuit

\* Mutant of executeRethrow: the error is wrapped in a new Error.
executeRethrow_wrapped(error) == "wrapped"

\* execute, lines 100-103: the error execute rethrows for an operation error.
executeRethrow(error) == error

\* Mutant of onSuccess: the circuit closes one success late.
onSuccess_late(circuit, config) ==
    IF circuit.state = "HALF_OPEN"
    THEN IF circuit.successes + 1 > config.successThreshold
         THEN [circuit EXCEPT !.state = "CLOSED", !.failures = 0, !.successes = 0]
         ELSE [circuit EXCEPT !.successes = circuit.successes + 1]
    ELSE IF circuit.state = "CLOSED"
         THEN [circuit EXCEPT !.failures = 0]
         ELSE circuit

\* onSuccess
onSuccess(circuit, config) ==
    IF circuit.state = "HALF_OPEN"
    THEN IF circuit.successes + 1 >= config.successThreshold
         THEN [circuit EXCEPT !.state = "CLOSED", !.failures = 0, !.successes = 0]
         ELSE [circuit EXCEPT !.successes = circuit.successes + 1]
    ELSE IF circuit.state = "CLOSED"
         THEN [circuit EXCEPT !.failures = 0]
         ELSE circuit

\* Mutant of onFailure: a failure in HALF_OPEN keeps the successes counted.
onFailure_keepsSuccesses(circuit, config, t) ==
    LET c1 == [circuit EXCEPT !.lastFailureTime = t] IN
    IF c1.state = "HALF_OPEN"
    THEN [c1 EXCEPT !.state = "OPEN", !.failures = 0]
    ELSE IF c1.state = "CLOSED"
         THEN LET c2 == [c1 EXCEPT !.failures = c1.failures + 1]
              IN IF c2.failures >= config.failureThreshold
                 THEN [c2 EXCEPT !.state = "OPEN"]
                 ELSE c2
         ELSE c1

\* Mutant of onFailure: the threshold comparison is strict.
onFailure_strict(circuit, config, t) ==
    LET c1 == [circuit EXCEPT !.lastFailureTime = t] IN
    IF c1.state = "HALF_OPEN"
    THEN [c1 EXCEPT !.state = "OPEN", !.failures = 0, !.successes = 0]
    ELSE IF c1.state = "CLOSED"
         THEN LET c2 == [c1 EXCEPT !.failures = c1.failures + 1]
              IN IF c2.failures > config.failureThreshold
                 THEN [c2 EXCEPT !.state = "OPEN"]
                 ELSE c2
         ELSE c1

\* onFailure.  lastFailureTime is overwritten with Date.now() before the
\* window test reads it, so the test compares the current time with itself.
onFailure(circuit, config, t) ==
    LET c1 == [circuit EXCEPT !.lastFailureTime = t] IN
    IF c1.state = "HALF_OPEN"
    THEN [c1 EXCEPT !.state = "OPEN", !.failures = 0, !.successes = 0]
    ELSE IF c1.state = "CLOSED"
         THEN LET c2 == [c1 EXCEPT !.failures = c1.failures + 1]
                  c3 == IF t - c2.lastFailureTime > config.windowSize
                        THEN [c2 EXCEPT !.failures = 1]
                        ELSE c2
              IN IF c3.failures >= config.failureThreshold
                 THEN [c3 EXCEPT !.state = "OPEN"]
                 ELSE c3
         ELSE c1

\* A call slot with no execute() in progress or completed.
CBIdle == [pc |-> "idle", service |-> "openai", entryState |-> "CLOSED", entryRejects |-> FALSE,
           invoked |-> 0, opOutcome |-> "none", outcome |-> "none",
           settleState |-> "none", settleSuccesses |-> 0]

CBInit ==
    /\ configs \in [Services -> CircuitBreakerConfig]
    /\ circuits = [s \in Services |-> registerCircuit]
    /\ cbCalls = [c \in CBSlots |-> CBIdle]
    /\ cbStreak = [s \in Services |-> 0]
    /\ cbOpenedAt = [s \in Services |-> 0]

\* execute(serviceName, fn) up to the first await: the admission check and,
\* when admitted, the synchronous invocation of fn.
Execute(c, s) ==
    /\ cbCalls[c].pc \in {"idle", "done"}
    /\ LET circuit == circuits[s]
           config == configs[s]
           rejected == executeRejects(circuit, config, now)
       IN /\ circuits' = [circuits EXCEPT ![s] = IF rejected THEN circuit
                                                 ELSE executeAdmit(circuit, config, now)]
          /\ cbCalls' = [cbCalls EXCEPT ![c] =
                [pc |-> IF rejected THEN "done" ELSE "running",
                 service |-> s,
                 entryState |-> circuit.state,
                 entryRejects |-> (circuit.state = "OPEN" /\ now - cbOpenedAt[s] < config.timeout),
                 invoked |-> IF rejected THEN 0 ELSE 1,
                 opOutcome |-> "none",
                 outcome |-> IF rejected THEN CircuitOpenError ELSE "none",
                 settleState |-> "none", settleSuccesses |-> 0]]
    /\ UNCHANGED <<now, configs, cbStreak, cbOpenedAt, rlVars, ddVars, prVars, delays, hashed>>

\* fn() resolves with result r: onSuccess, return result.
OperationResolves(c, r) ==
    /\ cbCalls[c].pc = "running"
    /\ LET s == cbCalls[c].service IN
       /\ circuits' = [circuits EXCEPT ![s] = onSuccess(circuits[s], configs[s])]
       /\ cbStreak' = [cbStreak EXCEPT ![s] = 0]
    /\ cbCalls' = [cbCalls EXCEPT ![c].pc = "done", ![c].opOutcome = r, ![c].outcome = r,
                                  ![c].settleState = circuits[cbCalls[c].service].state,
                                  ![c].settleSuccesses = circuits[cbCalls[c].service].successes]
    /\ UNCHANGED <<now, configs, cbOpenedAt, rlVars, ddVars, prVars, delays, hashed>>

\* fn() rejects with error e: onFailure, rethrow.
OperationRejects(c, e) ==
    /\ cbCalls[c].pc = "running"
    /\ LET s == cbCalls[c].service
           after == onFailure(circuits[s], configs[s], now)
       IN /\ circuits' = [circuits EXCEPT ![s] = after]
          /\ cbStreak' = [cbStreak EXCEPT ![s] = IF @ < MaxThreshold + 1 THEN @ + 1 ELSE @]
          /\ cbOpenedAt' = [cbOpenedAt EXCEPT ![s] =
                IF after.state = "OPEN" /\ circuits[s].state # "OPEN" THEN now ELSE @]
    /\ cbCalls' = [cbCalls EXCEPT ![c].pc = "done", ![c].opOutcome = e,
                                  ![c].outcome = executeRethrow(e),
                                  ![c].settleState = circuits[cbCalls[c].service].state,
                                  ![c].settleSuccesses = circuits[cbCalls[c].service].successes]
    /\ UNCHANGED <<now, configs, rlVars, ddVars, prVars, delays, hashed>>

\* Mutant of reset: the counters are kept.
reset_stateOnly(circuit) == [circuit EXCEPT !.state = "CLOSED"]

\* reset(serviceName), lines 183-192: the record after a manual reset
\* (lastFailureTime undefined is read as 0).
reset(circuit) ==
    [circuit EXCEPT !.state = "CLOSED", !.failures = 0, !.successes = 0, !.lastFailureTime = 0]

\* reset(serviceName) is called.
Reset(s) ==
    /\ circuits' = [circuits EXCEPT ![s] = reset(circuits[s])]
    /\ cbStreak' = [cbStreak EXCEPT ![s] = 0]
    /\ cbOpenedAt' = [cbOpenedAt EXCEPT ![s] = 0]
    /\ UNCHANGED <<now, configs, cbCalls, rlVars, ddVars, prVars, delays, hashed>>

\* Time passes.
Advance(limit) ==
    /\ now < limit
    /\ now' = now + 1
    /\ UNCHANGED <<cbVars, rlVars, ddVars, prVars, delays, hashed>>

Tick == Advance(MaxNow)

\* Time passes for the rate limiters.
TickRL == Advance(MaxRLNow)

(***************************************************************************)
(*                           RateLimiterService                            *)
(***************************************************************************)
Procs == 1..MaxProcs
RLSlots == 1..MaxRLCalls
FnOutcomes == {"result", "error"}

\* setTimeout(resolve, 1000) of scheduleWithDistributedLimit, in time units of 1 s.
ConsumeRetryDelay == 1

\* createDistributedLimiter / createLimiter: the configurations of a provider's
\* limiters (points per duration for the shared ledger, maxConcurrent locally).
RateLimiterConfigs ==
    [points : 1..MaxPoints, duration : {2}, maxConcurrent : 1..MaxConcurrent]

\* The ledger key does not exist (never written, or expired).
NoLedger == [consumed |-> 0, expire |-> 0]

\* limiter.consume(key) at the store: the key is created with its expiry when it
\* is absent or expired, and the consumed points are incremented atomically
\* (the count is kept up to points + 1: beyond points every value denies alike).
ledgerConsume(l, config, t) ==
    IF l.expire = 0 \/ t >= l.expire
    THEN [consumed |-> 1, expire |-> t + config.duration]
    ELSE [l EXCEPT !.consumed = IF @ <= config.points THEN @ + 1 ELSE @]

\* limiter.consume(key) resolves iff the consumed points do not exceed points.
ledgerAllows(l, config) == l.consumed <= config.points

\* tryConsume: true when consume resolved, false on any rejection, the store's
\* errors included (the catch block does not look at the error).
tryConsume(up, l, config) == up /\ ledgerAllows(l, config)

\* counts().RUNNING of a process's local limiter: the jobs the limiter has taken
\* from its queue and whose fn() it has not called yet (they wait for their
\* minTime slot).
running(p) == Cardinality({c \in RLSlots : rlCalls[p][c].pc = "running"})

\* The jobs the limiter holds against maxConcurrent: RUNNING and EXECUTING.
registered(p) ==
    Cardinality({c \in RLSlots : rlCalls[p][c].pc \in {"running", "executing"}})

RLCallIdle == [pc |-> "idle", denials |-> 0, storeError |-> FALSE, waitUntil |-> 0,
               outcome |-> "none"]

RLIdle ==
    /\ useDistributed = [p \in Procs |-> TRUE]
    /\ rlConfig = [points |-> 1, duration |-> 2, maxConcurrent |-> 1]
    /\ ledger = NoLedger
    /\ redisUp = TRUE
    /\ rlCalls = [p \in Procs |-> [c \in RLSlots |-> RLCallIdle]]
    /\ rlQueue = [p \in Procs |-> <<>>]
    /\ winDispatched = 0

RLInit ==
    /\ \E b \in BOOLEAN : useDistributed = [p \in Procs |-> b]
    /\ rlConfig \in RateLimiterConfigs
    /\ ledger = NoLedger
    /\ redisUp = TRUE
    /\ rlCalls = [p \in Procs |-> [c \in RLSlots |-> RLCallIdle]]
    /\ rlQueue = [p \in Procs |-> <<>>]
    /\ winDispatched = 0

\* scheduleWithDistributedLimit(limiterName, fn), line 133: with a distributed
\* limiter the call goes to tryConsume, otherwise straight to the local limiter.
ScheduleWithDistributedLimit(p, c) ==
    /\ rlCalls[p][c].pc = "idle"
    /\ IF useDistributed[p]
       THEN /\ rlCalls' = [rlCalls EXCEPT ![p][c] = [RLCallIdle EXCEPT !.pc = "consume"]]
            /\ UNCHANGED rlQueue
       ELSE /\ rlCalls' = [rlCalls EXCEPT ![p][c] = [RLCallIdle EXCEPT !.pc = "queued"]]
            /\ rlQueue' = [rlQueue EXCEPT ![p] = Append(@, c)]
    /\ UNCHANGED <<now, cbVars, ddVars, prVars, useDistributed, rlConfig, ledger, redisUp, winDispatched, delays, hashed>>

\* tryConsume and lines 135-144: allowed -> limiter.schedule; denied -> wait 1 s
\* and call scheduleWithDistributedLimit again.
Consume(p, c) ==
    /\ rlCalls[p][c].pc = "consume"
    /\ LET after == IF redisUp THEN ledgerConsume(ledger, rlConfig, now) ELSE ledger
           allowed == tryConsume(redisUp, after, rlConfig)
       IN /\ ledger' = after
          /\ winDispatched' = IF redisUp /\ (ledger.expire = 0 \/ now >= ledger.expire)
                              THEN 0 ELSE winDispatched
          /\ IF allowed
             THEN /\ rlCalls' = [rlCalls EXCEPT ![p][c] = [RLCallIdle EXCEPT !.pc = "queued"]]
                  /\ rlQueue' = [rlQueue EXCEPT ![p] = Append(@, c)]
             ELSE /\ rlCalls' = [rlCalls EXCEPT
                        ![p][c].pc = "wait",
                        ![p][c].storeError = ~redisUp,
                        ![p][c].denials = IF @ <= RetryBudget THEN @ + 1 ELSE @,
                        ![p][c].waitUntil = now + ConsumeRetryDelay]
                  /\ UNCHANGED rlQueue
    /\ UNCHANGED <<now, cbVars, ddVars, prVars, useDistributed, rlConfig, redisUp, delays, hashed>>

\* The 1 s timer fires: the recursive call starts its own tryConsume.
ConsumeRetry(p, c) ==
    /\ rlCalls[p][c].pc = "wait"
    /\ now >= rlCalls[p][c].waitUntil
    /\ rlCalls' = [rlCalls EXCEPT ![p][c].pc = "consume", ![p][c].waitUntil = 0]
    /\ UNCHANGED <<now, cbVars, ddVars, prVars, useDistributed, rlConfig, ledger, redisUp, rlQueue, winDispatched, delays, hashed>>

\* The local limiter takes the head of its queue when it holds fewer than
\* maxConcurrent jobs: the job is RUNNING, its fn() is called after its minTime
\* delay.
Dispatch(p) ==
    /\ rlQueue[p] # <<>>
    /\ registered(p) < rlConfig.maxConcurrent
    /\ LET c == Head(rlQueue[p]) IN
       rlCalls' = [rlCalls EXCEPT ![p][c].pc = "running"]
    /\ rlQueue' = [rlQueue EXCEPT ![p] = Tail(@)]
    /\ UNCHANGED <<now, cbVars, ddVars, prVars, useDistributed, rlConfig, ledger, redisUp, winDispatched, delays, hashed>>

\* The job's delay is over: fn() is called (the job is EXECUTING).
FnStarts(p, c) ==
    /\ rlCalls[p][c].pc = "running"
    /\ rlCalls' = [rlCalls EXCEPT ![p][c].pc = "executing"]
    /\ winDispatched' = IF ledger.expire # 0 /\ now < ledger.expire
                        THEN winDispatched + 1 ELSE winDispatched
    /\ UNCHANGED <<now, cbVars, ddVars, prVars, useDistributed, rlConfig, ledger, redisUp, rlQueue, delays, hashed>>

\* fn() settles; the call resolves or rejects with fn's own outcome.
FnSettles(p, c, o) ==
    /\ rlCalls[p][c].pc = "executing"
    /\ rlCalls' = [rlCalls EXCEPT ![p][c].pc = "done", ![p][c].outcome = o]
    /\ UNCHANGED <<now, cbVars, ddVars, prVars, useDistributed, rlConfig, ledger, redisUp, rlQueue, winDispatched, delays, hashed>>

\* getStats(name).running.
getStats(p) == running(p)

\* updateConfig(name, {maxConcurrent}): limiter.updateSettings on the existing
\* limiter; its queued, running and executing jobs stay where they are.
UpdateConfig(maxConcurrent) ==
    /\ rlConfig.maxConcurrent # maxConcurrent
    /\ rlConfig' = [rlConfig EXCEPT !.maxConcurrent = maxConcurrent]
    /\ UNCHANGED <<now, cbVars, ddVars, prVars, useDistributed, ledger, redisUp, rlCalls, rlQueue, winDispatched, delays, hashed>>

\* createLimiter(name, {maxConcurrent}): limiters.set(name, new Bottleneck(...))
\* replaces process p's limiter by an empty one.  The jobs of the replaced
\* limiter go on under that limiter ("detached") and are in no count of the new.
CreateLimiter(p, maxConcurrent) ==
    /\ \E c \in RLSlots : rlCalls[p][c].pc \in {"queued", "running", "executing"}
    /\ rlCalls' = [rlCalls EXCEPT ![p] =
          [c \in RLSlots |-> IF rlCalls[p][c].pc \in {"queued", "running", "executing"}
                             THEN [rlCalls[p][c] EXCEPT !.pc = "detached"]
                             ELSE rlCalls[p][c]]]
    /\ rlQueue' = [rlQueue EXCEPT ![p] = <<>>]
    /\ rlConfig' = [rlConfig EXCEPT !.maxConcurrent = maxConcurrent]
    /\ UNCHANGED <<now, cbVars, ddVars, prVars, useDistributed, ledger, redisUp, winDispatched, delays, hashed>>

\* A job of a replaced limiter settles: its caller gets fn's outcome, and the
\* current limiter's DONE count does not include it.
DetachedSettles(p, c, o) ==
    /\ rlCalls[p][c].pc = "detached"
    /\ rlCalls' = [rlCalls EXCEPT ![p][c].pc = "doneDetached", ![p][c].outcome = o]
    /\ UNCHANGED <<now, cbVars, ddVars, prVars, useDistributed, rlConfig, ledger, redisUp, rlQueue, winDispatched, delays, hashed>>

\* The shared store becomes unreachable, or reachable again.
RedisConnectionChanges ==
    /\ redisUp' = ~redisUp
    /\ UNCHANGED <<now, cbVars, ddVars, prVars, useDistributed, rlConfig, ledger, rlCalls, rlQueue, winDispatched, delays, hashed>>

RLNext ==
    \/ \E p \in Procs, c \in RLSlots : ScheduleWithDistributedLimit(p, c)
    \/ \E p \in Procs, c \in RLSlots : Consume(p, c)
    \/ \E p \in Procs, c \in RLSlots : ConsumeRetry(p, c)
    \/ \E p \in Procs : Dispatch(p)
    \/ \E p \in Procs, c \in RLSlots : FnStarts(p, c)
    \/ \E p \in Procs, c \in RLSlots, o \in FnOutcomes : FnSettles(p, c, o)
    \/ RedisConnectionChanges
    \/ TickRL

(***************************************************************************)
(*            LLMVisibilityService.createRun, the dedup gate               *)
(***************************************************************************)
CRSlots == 1..MaxCRCalls
NoKey == 0
Texts == 1..MaxTexts
\* Lists of prompt texts / brand names / model entries of a CreateRunDto.
\* Texts are numbered in their sort order.
\* Texts are interchangeable, so the lists taken are those that hold text 1.
Lists == {s \in UNION {[1..n -> Texts] : n \in 1..MaxListLen} : \E i \in DOMAIN s : s[i] = 1}
\* A model entry of a dto as the request body gives it: its fields in the
\* order the client wrote them, which JSON.stringify keeps.
modelEntry(provider, model) == <<<<"provider", provider>>, <<"model", model>>>>
modelEntryReversed(provider, model) == <<<<"model", model>>, <<"provider", provider>>>>

\* entry.provider, entry.model.
field(entry, name) == entry[CHOOSE i \in DOMAIN entry : entry[i][1] = name][2]

CreateRunDtos ==
    [idempotencyKey : 0..MaxKeys, prompts : Lists, brands : {<<1>>},
     models : {<<modelEntry(1, 1)>>}]

\* The age below which findByContentHash's result is returned: 5 minutes.  The
\* clock of SpecDD counts ticks of two and a half minutes.
FreshTicks == 2

RECURSIVE insertSorted(_, _)
insertSorted(x, s) ==
    IF s = <<>> THEN <<x>>
    ELSE IF x <= Head(s) THEN <<x>> \o s
    ELSE <<Head(s)>> \o insertSorted(x, Tail(s))

\* [...list].sort()
RECURSIVE sorted(_)
sorted(s) == IF s = <<>> THEN <<>> ELSE insertSorted(Head(s), sorted(Tail(s)))

\* `${a.provider}:${a.model}`, the sort key of a model entry; providers and
\* models are numbered in the order of their names.
providerModel(entry) == field(entry, "provider") * (MaxTexts + 1) + field(entry, "model")

RECURSIVE insertSortedByProviderModel(_, _)
insertSortedByProviderModel(x, s) ==
    IF s = <<>> THEN <<x>>
    ELSE IF providerModel(x) <= providerModel(Head(s)) THEN <<x>> \o s
    ELSE <<Head(s)>> \o insertSortedByProviderModel(x, Tail(s))

\* [...dto.models].sort((a, b) => key(a).localeCompare(key(b))): a stable sort
\* on the key; the entries themselves are kept as they came.
RECURSIVE sortedByProviderModel(_)
sortedByProviderModel(s) ==
    IF s = <<>> THEN <<>>
    ELSE insertSortedByProviderModel(Head(s), sortedByProviderModel(Tail(s)))

\* generateContentHash: sha256 of the JSON text of the three sorted lists
\* (the digest is taken to be injective on that text).
generateContentHash(dto) ==
    [prompts |-> sorted(dto.prompts), brands |-> sorted(dto.brands),
     models |-> sortedByProviderModel(dto.models)]

RunIds == 1..Len(runs)

\* RunRepository.findByIdempotencyKey: the documents findOne may return.
findByIdempotencyKey(key) == {b \in RunIds : runs[b].idempotencyKey = key}

\* Mutant of findByContentHash: the query finds nothing.
findByContentHash_blind(hash) == {}

\* Mutant of findByContentHash: the status is not filtered.
findByContentHash_anyStatus(hash) ==
    LET match == {b \in RunIds : runs[b].contentHash = hash}
    IN {b \in match : \A o \in match : runs[o].createdAt <= runs[b].createdAt}

\* RunRepository.findByContentHash: the documents findOne may return, those with
\* the latest createdAt among the runs with this hash and a status of the filter.
findByContentHash(hash) ==
    LET match == {b \in RunIds : /\ runs[b].contentHash = hash
                                 /\ runs[b].status \in {"pending", "running", "completed", "partial"}}
    IN {b \in match : \A o \in match : runs[o].createdAt <= runs[b].createdAt}

\* Mutant of isRecent: a run of exactly 5 minutes is recent.
isRecent_inclusive(b, t) == t - runs[b].createdAt <= FreshTicks

\* createRun, lines 112-115: ageMinutes < 5
isRecent(b, t) == t - runs[b].createdAt < FreshTicks

\* Mutant of finalStatus: the comparison with the number of responses comes first.
finalStatus_failedFirst(failedCount, responsesLength) ==
    IF failedCount >= responsesLength THEN "failed"
    ELSE IF failedCount = 0 THEN "completed"
    ELSE "partial"

\* Processing's final status, processRun lines 233-238.
finalStatus(failedCount, responsesLength) ==
    IF failedCount = 0 THEN "completed"
    ELSE IF failedCount < responsesLength THEN "partial"
    ELSE "failed"

CRIdle == [pc |-> "idle", dto |-> [idempotencyKey |-> 0, prompts |-> <<1>>, brands |-> <<1>>,
                                   models |-> <<<<<<"provider", 1>>, <<"model", 1>>>>>>],
           missing |-> {}, priorIds |-> {}, dupSeen |-> {}, dupFresh |-> FALSE]

\* No call has settled yet.
NoReturn == [outcome |-> "none", error |-> "none", idempotencyKey |-> 0, run |-> 0,
             isNew |-> FALSE, priorIds |-> {}, dupSeen |-> {}, dupFresh |-> FALSE]

DDIdle ==
    /\ runs = <<>>
    /\ promptDocs = [t \in Texts |-> 0]
    /\ brandDocs = [t \in Texts |-> 0]
    /\ crCalls = [c \in CRSlots |-> CRIdle]
    /\ keyReturned = [k \in 1..MaxKeys |-> {}]
    /\ lastReturn = NoReturn

\* createRun(dto) is called; the first await is the idempotency-key lookup
\* when the dto carries a key, the content-hash lookup otherwise.
\* (Slots are interchangeable: the free slot with the least number is taken.)
CreateRun(c, dto) ==
    /\ crCalls[c].pc = "idle"
    /\ \A d \in CRSlots : d < c => crCalls[d].pc # "idle"
    /\ crCalls' = [crCalls EXCEPT ![c] =
          [CRIdle EXCEPT !.pc = IF dto.idempotencyKey # NoKey THEN "idem" ELSE "hash",
                         !.dto = dto,
                         !.priorIds = IF dto.idempotencyKey # NoKey
                                      THEN keyReturned[dto.idempotencyKey] ELSE {}]]
    /\ UNCHANGED <<now, cbVars, rlVars, prVars, runs, promptDocs, brandDocs, keyReturned, delays, hashed>>
    /\ lastReturn' = NoReturn

\* createRun is called while no other call of it is running.
CreateRunAlone(c, dto) ==
    /\ \A d \in CRSlots : crCalls[d].pc = "idle"
    /\ CreateRun(c, dto)

\* Mutant of returns: isNew is reported the other way round.
returns_flipped(c, call, b, new) ==
    /\ crCalls' = [crCalls EXCEPT ![c] = CRIdle]
    /\ lastReturn' = [outcome |-> "returned", error |-> "none",
                      idempotencyKey |-> call.dto.idempotencyKey, run |-> b,
                      isNew |-> ~new, priorIds |-> call.priorIds, dupSeen |-> call.dupSeen,
                      dupFresh |-> call.dupFresh]
    /\ keyReturned' = IF call.dto.idempotencyKey # NoKey
                      THEN [keyReturned EXCEPT ![call.dto.idempotencyKey] = @ \cup {b}]
                      ELSE keyReturned

\* The call of slot c, whose record is call, returns {run: b, isNew: new}.
returns(c, call, b, new) ==
    /\ crCalls' = [crCalls EXCEPT ![c] = CRIdle]
    /\ lastReturn' = [outcome |-> "returned", idempotencyKey |-> call.dto.idempotencyKey, run |-> b, isNew |-> new,
                      priorIds |-> call.priorIds, dupSeen |-> call.dupSeen,
                      dupFresh |-> call.dupFresh]
    /\ keyReturned' = IF call.dto.idempotencyKey # NoKey
                      THEN [keyReturned EXCEPT ![call.dto.idempotencyKey] = @ \cup {b}]
                      ELSE keyReturned

\* The call of slot c rejects with the error of the awaited store operation.
throws(c, error) ==
    /\ crCalls' = [crCalls EXCEPT ![c] = CRIdle]
    /\ lastReturn' = [NoReturn EXCEPT !.outcome = "thrown", !.error = error,
                                      !.idempotencyKey = crCalls[c].dto.idempotencyKey]
    /\ UNCHANGED keyReturned

\* Lines 94-104.
IdempotencyKeyLookup(c) ==
    /\ crCalls[c].pc = "idem"
    /\ LET found == findByIdempotencyKey(crCalls[c].dto.idempotencyKey) IN
       IF found # {}
       THEN \E existing \in found : returns(c, crCalls[c], existing, FALSE)
       ELSE /\ crCalls' = [crCalls EXCEPT ![c].pc = "hash"]
            /\ UNCHANGED keyReturned /\ lastReturn' = NoReturn
    /\ UNCHANGED <<now, cbVars, rlVars, prVars, runs, promptDocs, brandDocs, delays, hashed>>

\* Lines 106-121.  dupSeen and dupFresh record what the collection held when
\* it was queried: the latest runs with the fingerprint of the dto that are
\* neither failed nor cancelled, and whether one is younger than 5 minutes.
ContentHashLookup(c) ==
    /\ crCalls[c].pc = "hash"
    /\ LET hash == generateContentHash(crCalls[c].dto)
           found == findByContentHash(hash)
           same == {b \in RunIds : /\ runs[b].contentHash = hash
                                   /\ runs[b].status \notin {"failed", "cancelled"}}
           call == [crCalls[c] EXCEPT
                      !.dupSeen = {b \in same : \A o \in same : runs[o].createdAt <= runs[b].createdAt},
                      !.dupFresh = \E b \in same : now - runs[b].createdAt < FreshTicks]
       IN IF found # {}
          THEN \E recentDuplicate \in found :
                 IF isRecent(recentDuplicate, now)
                 THEN returns(c, call, recentDuplicate, FALSE)
                 ELSE /\ crCalls' = [crCalls EXCEPT ![c] = [call EXCEPT !.pc = "pfind"]]
                      /\ UNCHANGED keyReturned /\ lastReturn' = NoReturn
          ELSE /\ crCalls' = [crCalls EXCEPT ![c] = [call EXCEPT !.pc = "pfind"]]
               /\ UNCHANGED keyReturned /\ lastReturn' = NoReturn
    /\ UNCHANGED <<now, cbVars, rlVars, prVars, runs, promptDocs, brandDocs, delays, hashed>>

\* PromptRepository.findOrCreate for every prompt of the dto, the findOne
\* queries: the entries for which no document is found go on to create.
FindPrompts(c) ==
    /\ crCalls[c].pc = "pfind"
    /\ LET missing == {i \in 1..Len(crCalls[c].dto.prompts) :
                          promptDocs[crCalls[c].dto.prompts[i]] = 0}
       IN crCalls' = [crCalls EXCEPT ![c].missing = missing,
                                     ![c].pc = IF missing = {} THEN "bfind" ELSE "pcreate"]
    /\ UNCHANGED <<now, cbVars, rlVars, prVars, runs, promptDocs, brandDocs, keyReturned, delays, hashed>>
    /\ lastReturn' = NoReturn

\* The create calls of the entries not found.  The unique index on text lets
\* one create per text through and rejects the others; a rejection rejects
\* Promise.all and createRun.
CreatePrompts(c) ==
    /\ crCalls[c].pc = "pcreate"
    /\ LET list == crCalls[c].dto.prompts
           texts == {list[i] : i \in crCalls[c].missing}
           clash == \E i \in crCalls[c].missing :
                       \/ promptDocs[list[i]] > 0
                       \/ \E j \in crCalls[c].missing : j # i /\ list[j] = list[i]
       IN /\ promptDocs' = [t \in Texts |-> IF t \in texts THEN 1 ELSE promptDocs[t]]
          /\ IF clash THEN throws(c, "duplicateKey")
             ELSE /\ crCalls' = [crCalls EXCEPT ![c].pc = "bfind", ![c].missing = {}]
                  /\ UNCHANGED keyReturned /\ lastReturn' = NoReturn
    /\ UNCHANGED <<now, cbVars, rlVars, prVars, runs, brandDocs, delays, hashed>>

\* BrandRepository.findOrCreate for every brand of the dto, the findOne queries.
FindBrands(c) ==
    /\ crCalls[c].pc = "bfind"
    /\ LET missing == {i \in 1..Len(crCalls[c].dto.brands) :
                          brandDocs[crCalls[c].dto.brands[i]] = 0}
       IN crCalls' = [crCalls EXCEPT ![c].missing = missing,
                                     ![c].pc = IF missing = {} THEN "insert" ELSE "bcreate"]
    /\ UNCHANGED <<now, cbVars, rlVars, prVars, runs, promptDocs, brandDocs, keyReturned, delays, hashed>>
    /\ lastReturn' = NoReturn

\* The create calls of the brands not found (unique index on name).
CreateBrands(c) ==
    /\ crCalls[c].pc = "bcreate"
    /\ LET list == crCalls[c].dto.brands
           names == {list[i] : i \in crCalls[c].missing}
           clash == \E i \in crCalls[c].missing :
                       \/ brandDocs[list[i]] > 0
                       \/ \E j \in crCalls[c].missing : j # i /\ list[j] = list[i]
       IN /\ brandDocs' = [t \in Texts |-> IF t \in names THEN 1 ELSE brandDocs[t]]
          /\ IF clash THEN throws(c, "duplicateKey")
             ELSE /\ crCalls' = [crCalls EXCEPT ![c].pc = "insert", ![c].missing = {}]
                  /\ UNCHANGED keyReturned /\ lastReturn' = NoReturn
    /\ UNCHANGED <<now, cbVars, rlVars, prVars, runs, promptDocs, delays, hashed>>

\* runRepository.create, the start of processRun, return {run, isNew: true}.
InsertRun(c) ==
    /\ crCalls[c].pc = "insert"
    /\ Len(runs) < MaxRuns
    /\ LET dto == crCalls[c].dto IN
       runs' = Append(runs, [status |-> "pending",
                             totalPrompts |-> Len(dto.prompts) * Len(dto.models),
                             completedPrompts |-> 0,
                             failedPrompts |-> 0,
                             idempotencyKey |-> dto.idempotencyKey,
                             contentHash |-> generateContentHash(dto),
                             createdAt |-> now])
    /\ returns(c, crCalls[c], Len(runs) + 1, TRUE)
    /\ UNCHANGED <<now, cbVars, rlVars, prVars, promptDocs, brandDocs, delays, hashed>>

\* A query or write of createRun is rejected by the store: createRun rejects.
StoreRejects(c) ==
    /\ crCalls[c].pc \in {"idem", "hash", "pfind", "pcreate", "bfind", "bcreate", "insert"}
    /\ throws(c, "storeError")
    /\ UNCHANGED <<now, cbVars, rlVars, prVars, runs, promptDocs, brandDocs, delays, hashed>>

\* processRun, lines 178-180: status 'running'.
RunStarts(b) ==
    /\ runs[b].status = "pending"
    /\ runs' = [runs EXCEPT ![b].status = "running"]
    /\ UNCHANGED <<now, cbVars, rlVars, prVars, promptDocs, brandDocs, crCalls, keyReturned, delays, hashed>>
    /\ lastReturn' = NoReturn

\* processRun, lines 227-241: the final update, for a run whose units left
\* failedCount failed responses and a success response each otherwise.
RunEnds(b, failedCount) ==
    /\ runs[b].status = "running"
    /\ failedCount <= runs[b].totalPrompts
    /\ runs' = [runs EXCEPT ![b].status = finalStatus(failedCount, runs[b].totalPrompts),
                            ![b].completedPrompts = runs[b].totalPrompts - failedCount,
                            ![b].failedPrompts = failedCount]
    /\ UNCHANGED <<now, cbVars, rlVars, prVars, promptDocs, brandDocs, crCalls, keyReturned, delays, hashed>>
    /\ lastReturn' = NoReturn

\* Time passes.
TickDD ==
    /\ now < MaxDDNow
    /\ now' = now + 1
    /\ lastReturn' = NoReturn
    /\ UNCHANGED <<cbVars, rlVars, prVars, runs, promptDocs, brandDocs, crCalls, keyReturned, delays, hashed>>

DDNext ==
    \/ \E c \in CRSlots, dto \in CreateRunDtos : CreateRunAlone(c, dto)
    \/ \E c \in CRSlots : IdempotencyKeyLookup(c)
    \/ \E c \in CRSlots : ContentHashLookup(c)
    \/ \E c \in CRSlots : FindPrompts(c)
    \/ \E c \in CRSlots : CreatePrompts(c)
    \/ \E c \in CRSlots : FindBrands(c)
    \/ \E c \in CRSlots : CreateBrands(c)
    \/ \E c \in CRSlots : InsertRun(c)
    \/ \E c \in CRSlots : StoreRejects(c)
    \/ \E b \in RunIds : RunStarts(b)
    \/ \E b \in RunIds, f \in 0..MaxListLen : RunEnds(b, f)
    \/ TickDD

(***************************************************************************)
(*     LLMVisibilityService.processRun and processPromptModelPair          *)
(***************************************************************************)
\* The prompt-model pairs of the run: tasks[1], tasks[2], ... in creation order.
UnitIds == 1..(MaxPrompts * MaxModels)

\* How an attempt's scheduleWithDistributedLimit(callLLM) settles: with the
\* provider's response, with the provider's error (a rate-limit response or
\* another), or with the circuit breaker's rejection, the provider not called.
AttemptOutcomes == {"response", "providerError", "rateLimitError", "circuitOpen"}

\* run.config.retryAttempts || 3
retryAttemptsOrDefault(retryAttempts) == IF retryAttempts = 0 THEN 3 ELSE retryAttempts

\* Mutant of concurrencyLimitOrDefault: the run's limit is not read.
concurrencyLimitOrDefault_ignored(concurrencyLimit) == 5

\* run.config.concurrencyLimit || 5
concurrencyLimitOrDefault(concurrencyLimit) == IF concurrencyLimit = 0 THEN 5 ELSE concurrencyLimit

maxRetries == retryAttemptsOrDefault(prRun.retryAttempts)

\* Mutant of loopContinues: the last retry is not made.
loopContinues_strict(retryCount) == retryCount < maxRetries

\* while (retryCount <= maxRetries), and the test before the backoff wait
loopContinues(retryCount) == retryCount <= maxRetries

UnitAbsent == [pc |-> "absent", retryCount |-> 0, lastError |-> "none",
               providerCalls |-> 0, backoffs |-> 0, onlyProviderErrors |-> TRUE]

NoResponses == [success |-> 0, failed |-> 0]

\* The run documents createRun inserts (lines 133-151), by number of prompts
\* and of models.
NewRuns ==
    {[status |-> "pending", totalPrompts |-> np * nm, completedPrompts |-> 0, failedPrompts |-> 0,
      configuredRetryAttempts |-> ra, retryAttempts |-> retryAttemptsOrDefault(ra),
      concurrencyLimit |-> cl, metrics |-> FALSE] :
        np \in 0..MaxPrompts, nm \in 1..MaxModels,
        ra \in 0..MaxRetryAttempts, cl \in 1..MaxConcurrencyLimit}

PRIdle ==
    /\ prRun = [status |-> "pending", totalPrompts |-> 0, completedPrompts |-> 0,
                failedPrompts |-> 0, configuredRetryAttempts |-> 1, retryAttempts |-> 1,
                concurrencyLimit |-> 1,
                metrics |-> FALSE]
    /\ prPc = "idle"
    /\ units = [u \in UnitIds |-> UnitAbsent]
    /\ responses = [u \in UnitIds |-> NoResponses]

\* createRun has inserted the run and calls processRun.
PRInit ==
    /\ prRun \in NewRuns
    /\ prPc = "start"
    /\ units = [u \in UnitIds |-> UnitAbsent]
    /\ responses = [u \in UnitIds |-> NoResponses]

\* The catch block of an attempt, lines 330-345.
catch(unit, error) ==
    [unit EXCEPT !.lastError = error,
                 !.retryCount = @ + 1,
                 !.onlyProviderErrors = @ /\ error = "providerError",
                 !.pc = IF loopContinues(unit.retryCount + 1) THEN "backoff" ELSE "storeFailed"]

\* Mutant of inFlight: a task that rejected keeps its slot.
inFlight_keepsRejected ==
    {u \in UnitIds : units[u].pc \in {"attempt", "quotaWait", "store", "mentions", "backoff", "storeFailed", "thrown"}}

\* Pairs started and not settled.
inFlight ==
    {u \in UnitIds : units[u].pc \in {"attempt", "quotaWait", "store", "mentions", "backoff", "storeFailed"}}

\* Mutant of settled: a task that rejected does not count as settled.
settled_noRejected(u) == units[u].pc \in {"absent", "succeeded", "failed"}

\* Mutant of settled: a pair in a backoff wait counts as settled.
settled_early(u) == units[u].pc \in {"absent", "succeeded", "failed", "thrown", "backoff"}

\* Promise.allSettled: the pair's task has resolved or rejected.
settled(u) == units[u].pc \in {"absent", "succeeded", "failed", "thrown"}

\* createRun has inserted run 1, called processRun without awaiting it, and
\* returned {run, isNew: true} (lines 154-163).
createRunResult == [NoReturn EXCEPT !.outcome = "returned", !.run = 1, !.isNew = TRUE]

DDSubmitted ==
    /\ runs = <<>>
    /\ promptDocs = [t \in Texts |-> 0]
    /\ brandDocs = [t \in Texts |-> 0]
    /\ crCalls = [c \in CRSlots |-> CRIdle]
    /\ keyReturned = [k \in 1..MaxKeys |-> {}]
    /\ lastReturn = createRunResult

\* Mutant of processRunCatch: the rejection of processRun becomes the rejection
\* of createRun.
processRunCatch_rethrows(result) ==
    [result EXCEPT !.outcome = "thrown", !.error = "processingError", !.isNew = FALSE]

\* Lines 154-161, processRun(...).catch((error) => logger.error(...)): the
\* rejection of processRun is logged; what createRun has returned stays.
processRunCatch(result) == result

\* What the caller of createRun holds after a step of processRun.
afterProcessRunStep == IF prPc' = "thrown" THEN processRunCatch(lastReturn) ELSE lastReturn

\* processRun, lines 178-180: status 'running'; the write may be rejected,
\* and processRun with it.
MarkRunning(ok) ==
    /\ prPc = "start"
    /\ IF ok THEN /\ prRun' = [prRun EXCEPT !.status = "running"]
                  /\ prPc' = "read"
             ELSE /\ prPc' = "thrown"
                  /\ UNCHANGED prRun
    /\ lastReturn' = afterProcessRunStep
    /\ UNCHANGED <<now, cbVars, rlVars, runs, promptDocs, brandDocs, crCalls, keyReturned, units, responses, delays, hashed>>

\* Lines 182-215: the run is read back and a task is created per pair.
CreateTasks(ok) ==
    /\ prPc = "read"
    /\ IF ok THEN /\ prPc' = "tasks"
                  /\ units' = [u \in UnitIds |->
                                 IF u <= prRun.totalPrompts
                                 THEN [UnitAbsent EXCEPT !.pc = "queued"] ELSE UnitAbsent]
             ELSE /\ prPc' = "thrown"
                  /\ UNCHANGED units
    /\ lastReturn' = afterProcessRunStep
    /\ UNCHANGED <<now, cbVars, rlVars, runs, promptDocs, brandDocs, crCalls, keyReturned, prRun, responses, delays, hashed>>

\* pLimit starts the next task when fewer than concurrencyLimit are running.
UnitStarts(u) ==
    /\ prPc = "tasks"
    /\ units[u].pc = "queued"
    /\ \A v \in UnitIds : v < u => units[v].pc # "queued"
    /\ Cardinality(inFlight) < concurrencyLimitOrDefault(prRun.concurrencyLimit)
    /\ units' = [units EXCEPT ![u].pc = IF loopContinues(0) THEN "attempt" ELSE "storeFailed"]
    /\ UNCHANGED <<now, cbVars, rlVars, ddVars, prRun, prPc, responses, delays, hashed>>

\* scheduleWithDistributedLimit, lines 133-137 of the rate limiter: tryConsume
\* denies the attempt, which waits one second.
QuotaDenied(u) ==
    /\ units[u].pc = "attempt"
    /\ units' = [units EXCEPT ![u].pc = "quotaWait"]
    /\ UNCHANGED <<now, cbVars, rlVars, ddVars, prRun, prPc, responses, delays, hashed>>

\* Line 138 of the rate limiter: the wait is over and the attempt asks again.
QuotaRetry(u) ==
    /\ units[u].pc = "quotaWait"
    /\ units' = [units EXCEPT ![u].pc = "attempt"]
    /\ UNCHANGED <<now, cbVars, rlVars, ddVars, prRun, prPc, responses, delays, hashed>>

\* Lines 298-310: the rate-limited provider call of an attempt settles.
Attempt(u, outcome) ==
    /\ units[u].pc = "attempt"
    /\ LET called == [units[u] EXCEPT
                        !.providerCalls = IF outcome = "circuitOpen" THEN @ ELSE @ + 1]
       IN units' = [units EXCEPT ![u] =
                      IF outcome = "response"
                      THEN [called EXCEPT !.pc = "store", !.onlyProviderErrors = FALSE]
                      ELSE catch(called, outcome)]
    /\ UNCHANGED <<now, cbVars, rlVars, ddVars, prRun, prPc, responses, delays, hashed>>

\* Lines 313-324: the success response is stored, or the write is rejected.
StoreResponse(u, ok) ==
    /\ units[u].pc = "store"
    /\ IF ok THEN /\ responses' = [responses EXCEPT ![u].success = @ + 1]
                  /\ units' = [units EXCEPT ![u].pc = "mentions"]
             ELSE /\ units' = [units EXCEPT ![u] = catch(@, "storeError")]
                  /\ UNCHANGED responses
    /\ UNCHANGED <<now, cbVars, rlVars, ddVars, prRun, prPc, delays, hashed>>

\* Lines 327-329: analyzeBrandMentions writes the mention records and the pair
\* returns, or a write is rejected (by the store, or by the unique index on
\* responseId and brandId when a brand is listed twice).
AnalyzeBrandMentions(u, ok) ==
    /\ units[u].pc = "mentions"
    /\ units' = [units EXCEPT ![u] = IF ok THEN [@ EXCEPT !.pc = "succeeded"]
                                     ELSE catch(@, "storeError")]
    /\ UNCHANGED <<now, cbVars, rlVars, ddVars, prRun, prPc, responses, delays, hashed>>

\* Lines 336-340: the backoff wait is over.
BackoffElapses(u) ==
    /\ units[u].pc = "backoff"
    /\ units' = [units EXCEPT ![u].pc = "attempt", ![u].backoffs = @ + 1]
    /\ UNCHANGED <<now, cbVars, rlVars, ddVars, prRun, prPc, responses, delays, hashed>>

\* Lines 348-365: the failed response is stored and the pair returns, or the
\* write is rejected and the pair's task with it.
StoreFailedResponse(u, ok) ==
    /\ units[u].pc = "storeFailed"
    /\ IF ok THEN /\ responses' = [responses EXCEPT ![u].failed = @ + 1]
                  /\ units' = [units EXCEPT ![u].pc = "failed"]
             ELSE /\ units' = [units EXCEPT ![u].pc = "thrown"]
                  /\ UNCHANGED responses
    /\ UNCHANGED <<now, cbVars, rlVars, ddVars, prRun, prPc, delays, hashed>>

RECURSIVE countResponses(_, _)
countResponses(status, n) ==
    IF n = 0 THEN 0 ELSE responses[n][status] + countResponses(status, n - 1)

\* Lines 218-241: every task has settled; the responses of the run are read
\* and the final status and counters are written.
FinalUpdate(ok) ==
    /\ prPc = "tasks"
    /\ \A u \in UnitIds : settled(u)
    /\ IF ok
       THEN LET successCount == countResponses("success", MaxPrompts * MaxModels)
                failedCount == countResponses("failed", MaxPrompts * MaxModels)
            IN /\ prRun' = [prRun EXCEPT
                              !.status = finalStatus(failedCount, successCount + failedCount),
                              !.completedPrompts = successCount,
                              !.failedPrompts = failedCount]
               /\ prPc' = "metrics"
       ELSE /\ prPc' = "thrown"
            /\ UNCHANGED prRun
    /\ lastReturn' = afterProcessRunStep
    /\ UNCHANGED <<now, cbVars, rlVars, runs, promptDocs, brandDocs, crCalls, keyReturned, units, responses, delays, hashed>>

\* Lines 244-249: the metrics are written.
UpdateMetrics(ok) ==
    /\ prPc = "metrics"
    /\ IF ok THEN /\ prRun' = [prRun EXCEPT !.metrics = TRUE]
                  /\ prPc' = "done"
             ELSE /\ prPc' = "thrown"
                  /\ UNCHANGED prRun
    /\ lastReturn' = afterProcessRunStep
    /\ UNCHANGED <<now, cbVars, rlVars, runs, promptDocs, brandDocs, crCalls, keyReturned, units, responses, delays, hashed>>

PRNext ==
    \/ \E ok \in BOOLEAN : MarkRunning(ok)
    \/ \E ok \in BOOLEAN : CreateTasks(ok)
    \/ \E u \in UnitIds : UnitStarts(u)
    \/ \E u \in UnitIds : QuotaDenied(u)
    \/ \E u \in UnitIds : QuotaRetry(u)
    \/ \E u \in UnitIds, outcome \in AttemptOutcomes : Attempt(u, outcome)
    \/ \E u \in UnitIds, ok \in BOOLEAN : StoreResponse(u, ok)
    \/ \E u \in UnitIds, ok \in BOOLEAN : AnalyzeBrandMentions(u, ok)
    \/ \E u \in UnitIds : BackoffElapses(u)
    \/ \E u \in UnitIds, ok \in BOOLEAN : StoreFailedResponse(u, ok)
    \/ \E ok \in BOOLEAN : FinalUpdate(ok)
    \/ \E ok \in BOOLEAN : UpdateMetrics(ok)

(***************************************************************************)
(* processPromptModelPair, lines 334-340: the delay before a retry.        *)
(***************************************************************************)
RECURSIVE pow(_, _)
\* Math.pow(base, exponent) for a natural exponent.
pow(base, exponent) == IF exponent = 0 THEN 1 ELSE base * pow(base, exponent - 1)

\* Math.min.
min(a, b) == IF a <= b THEN a ELSE b

BaseDelayMs == 1000
MaxDelayMs == 10000
JitterRangeMs == 1000

\* Math.random() * 1000: a value in [0, 1000); the least, the greatest whole
\* millisecond, and values between.
Jitters == {0, 1, JitterRangeMs \div 2, JitterRangeMs - 1}

\* const baseDelay = Math.min(1000 * Math.pow(2, retryCount - 1), 10000).
baseDelay(retryCount) == min(BaseDelayMs * pow(2, retryCount - 1), MaxDelayMs)

\* Mutant of backoffDelay: the jitter is three times as wide.
backoffDelay_wideJitter(retryCount, jitter) == baseDelay(retryCount) + 3 * jitter

\* const delay = baseDelay + jitter.
backoffDelay(retryCount, jitter) == baseDelay(retryCount) + jitter

\* The first retry at which baseDelay is the cap.
capAttempt ==
    CHOOSE n \in 1..(MaxAttempt + 1) :
        /\ BaseDelayMs * pow(2, n - 1) >= MaxDelayMs
        /\ \A m \in 1..(n - 1) : BaseDelayMs * pow(2, m - 1) < MaxDelayMs

BOIdle == delays = <<>> /\ hashed = <<>>

\* The catch block of a unit's next failed attempt (retryCount++ and, while
\* retryCount <= maxRetries, the delay) for a run whose retryAttempts is at
\* least MaxAttempt.
Backoff(jitter) ==
    /\ Len(delays) < MaxAttempt
    /\ delays' = Append(delays, backoffDelay(Len(delays) + 1, jitter))
    /\ UNCHANGED <<now, cbVars, rlVars, ddVars, prVars, hashed>>

BONext == \E jitter \in Jitters : Backoff(jitter)

CBIdleInit ==
    /\ configs = [s \in Services |-> [failureThreshold |-> 1, successThreshold |-> 1,
                                      timeout |-> 2, windowSize |-> 1]]
    /\ circuits = [s \in Services |-> registerCircuit]
    /\ cbCalls = [c \in CBSlots |-> CBIdle]
    /\ cbStreak = [s \in Services |-> 0]
    /\ cbOpenedAt = [s \in Services |-> 0]

InitRL == now = 1 /\ CBIdleInit /\ RLInit /\ DDIdle /\ PRIdle /\ BOIdle

SpecRL == InitRL /\ [][RLNext]_vars

InitBO == now = 1 /\ CBIdleInit /\ RLIdle /\ DDIdle /\ PRIdle /\ BOIdle

SpecBO == InitBO /\ [][BONext]_vars

(***************************************************************************)
(* generateContentHash applied to request bodies.                          *)
(***************************************************************************)
ModelEntries == {modelEntry(1, 1), modelEntryReversed(1, 1), modelEntry(1, 2)}

\* Request bodies: prompts and brands in either order, model entries with
\* their fields in either order, with or without notes, key and config.
HashDtos ==
    [prompts : {<<1>>, <<1, 2>>, <<2, 1>>},
     brands : {<<1, 2>>, <<2, 1>>},
     models : UNION {[1..n -> ModelEntries] : n \in 1..MaxListLen},
     notes : {"", "n"},
     idempotencyKey : 0..MaxKeys,
     config : {"none", "retryAttempts"}]

\* createRun, line 107 (and line 140): the fingerprint of a request body.
GenerateContentHash(dto) ==
    /\ Len(hashed) < MaxHashed
    /\ hashed' = Append(hashed, [dto |-> dto, contentHash |-> generateContentHash(dto)])
    /\ UNCHANGED <<now, cbVars, rlVars, ddVars, prVars, delays>>

HashNext == \E dto \in HashDtos : GenerateContentHash(dto)

InitHash == now = 1 /\ CBIdleInit /\ RLIdle /\ DDIdle /\ PRIdle /\ BOIdle

SpecHash == InitHash /\ [][HashNext]_vars

\* The local limiters alone (no distributed limiter is configured), with the
\* calls that reconfigure and replace them.
LimInit ==
    /\ useDistributed = [p \in Procs |-> FALSE]
    /\ rlConfig \in {config \in RateLimiterConfigs : config.points = 1}
    /\ ledger = NoLedger
    /\ redisUp = TRUE
    /\ rlCalls = [p \in Procs |-> [c \in RLSlots |-> RLCallIdle]]
    /\ rlQueue = [p \in Procs |-> <<>>]
    /\ winDispatched = 0

LimNext ==
    \/ \E p \in Procs, c \in RLSlots : ScheduleWithDistributedLimit(p, c)
    \/ \E p \in Procs : Dispatch(p)
    \/ \E p \in Procs, c \in RLSlots : FnStarts(p, c)
    \/ \E p \in Procs, c \in RLSlots, o \in FnOutcomes : FnSettles(p, c, o)
    \/ \E maxConcurrent \in 1..MaxConcurrent : UpdateConfig(maxConcurrent)
    \/ \E p \in Procs, maxConcurrent \in 1..MaxConcurrent : CreateLimiter(p, maxConcurrent)
    \/ \E p \in Procs, c \in RLSlots, o \in FnOutcomes : DetachedSettles(p, c, o)

InitLim == now = 1 /\ CBIdleInit /\ LimInit /\ DDIdle /\ PRIdle /\ BOIdle

SpecLim == InitLim /\ [][LimNext]_vars

InitDD == now = 1 /\ CBIdleInit /\ RLIdle /\ DDIdle /\ PRIdle /\ BOIdle

\* createRun calls that overlap in time: a second call may start while the
\* first is suspended at any of its awaits.  Runs stay pending and the clock
\* does not advance, so every run is within the five-minute window.
RaceNext ==
    \/ \E c \in CRSlots, dto \in CreateRunDtos : CreateRun(c, dto)
    \/ \E c \in CRSlots : IdempotencyKeyLookup(c)
    \/ \E c \in CRSlots : ContentHashLookup(c)
    \/ \E c \in CRSlots : FindPrompts(c)
    \/ \E c \in CRSlots : CreatePrompts(c)
    \/ \E c \in CRSlots : FindBrands(c)
    \/ \E c \in CRSlots : CreateBrands(c)
    \/ \E c \in CRSlots : InsertRun(c)
    \/ \E c \in CRSlots : StoreRejects(c)

InitRace == now = 1 /\ CBIdleInit /\ RLIdle /\ DDIdle /\ PRIdle /\ BOIdle

SpecRace == InitRace /\ [][RaceNext]_vars

SpecDD == InitDD /\ [][DDNext]_vars

InitPR == now = 1 /\ CBIdleInit /\ RLIdle /\ DDSubmitted /\ PRInit /\ BOIdle

SpecPR == InitPR /\ [][PRNext]_vars

\* The event loop runs every continuation that is ready: an awaited call that
\* settles, a timer that fires and a task pLimit can start are taken up.
\* Every enabled step of the event loop is taken in the end, and a quota that
\* was denied is refilled: an attempt that asks again and again is admitted
\* (and its provider call settles).
\* The runs of FairSpecPR are those submitted with a retryAttempts of their own
\* (the fairness conditions do not depend on the number of retries).
PRInitConfigured == PRInit /\ prRun.configuredRetryAttempts > 0

InitFairPR == now = 1 /\ CBIdleInit /\ RLIdle /\ DDSubmitted /\ PRInitConfigured /\ BOIdle

FairSpecPR ==
    /\ InitFairPR
    /\ [][PRNext]_vars
    /\ WF_vars(PRNext)
    /\ \A u \in UnitIds : SF_vars(\E outcome \in AttemptOutcomes : Attempt(u, outcome))

(***************************************************************************)
(* C1: in every reachable state, whatever the outcomes of provider calls   *)
(* and of storage writes, the run's completedPrompts + failedPrompts does  *)
(* not exceed totalPrompts, and equals it when the status is completed,    *)
(* partial or failed.                                                      *)
(***************************************************************************)
C1_CountersWithinTotal ==
    /\ prRun.completedPrompts + prRun.failedPrompts <= prRun.totalPrompts
    /\ prRun.status \in {"completed", "partial", "failed"}
          => prRun.completedPrompts + prRun.failedPrompts = prRun.totalPrompts

\* The pairs of the run.
runUnits == {u \in UnitIds : units[u].pc # "absent"}

\* The pairs that ended without a result: retries exhausted.
failedUnits == {u \in runUnits : units[u].pc \in {"failed", "thrown"}}

(***************************************************************************)
(* C9: once all pairs of the run are settled and the final status is       *)
(* written, the status is completed if no pair failed, failed if every     *)
(* pair failed, and partial otherwise.                                     *)
(***************************************************************************)
C9_FinalStatusFromUnits ==
    prPc \in {"metrics", "done"}
        => prRun.status = IF failedUnits = {} THEN "completed"
                          ELSE IF failedUnits = runUnits THEN "failed"
                          ELSE "partial"

\* A pair all of whose attempts so far ended with a provider error other than
\* a rate-limit response, and that has left the retry loop.
exhaustedByProvider(u) ==
    /\ units[u].pc \in {"storeFailed", "failed", "thrown"}
    /\ units[u].onlyProviderErrors

C11_FailureLeavesSiblings ==
    /\ [][\A u \in UnitIds :
            (units[u].pc = "storeFailed" /\ units'[u].pc \in {"failed", "thrown"})
               => /\ \A v \in UnitIds \ {u} : units'[v] = units[v] /\ responses'[v] = responses[v]
                  /\ prPc' = prPc]_vars
    /\ \A u \in UnitIds, v \in UnitIds :
          (u # v /\ units[u].pc \in {"failed", "thrown"} /\ units[v].pc # "absent")
              ~> (units[v].pc \in {"succeeded", "failed", "thrown"})

\* With one pair at a time, the first pair's task has rejected and the second
\* pair, started after it, has succeeded.
C11_Witness ==
    /\ prRun.concurrencyLimit = 1
    /\ units[1].pc = "thrown"
    /\ units[2].pc = "succeeded"
    /\ responses[2].success = 1

(***************************************************************************)
(* C2: of two createRun calls with the same idempotency key that do not    *)
(* overlap, the later returns the batch the earlier returned, with         *)
(* isNew = false and without creating a batch, whatever the content of the *)
(* calls and whatever the status and age of the batch.  (priorIds of a     *)
(* call holds the ids returned, before it started, to calls with its key.) *)
(***************************************************************************)
C2_SameKeySameBatch ==
    (lastReturn.outcome = "returned" /\ lastReturn.priorIds # {})
        => /\ lastReturn.priorIds = {lastReturn.run}
           /\ ~lastReturn.isNew

(***************************************************************************)
(* C5: a createRun call without idempotency key that returns, returns with *)
(* isNew = false the latest batch with its fingerprint and a status among  *)
(* pending, running, completed, partial when such a batch was created less *)
(* than 5 minutes before the lookup, and returns a batch it has created,   *)
(* with isNew = true, when the latest such batch is 5 minutes old or older *)
(* (or there is none).                                                     *)
(***************************************************************************)
C5_ContentHashFreshness ==
    (lastReturn.outcome = "returned" /\ lastReturn.idempotencyKey = NoKey)
        => /\ lastReturn.dupFresh
                => /\ ~lastReturn.isNew
                   /\ lastReturn.run \in lastReturn.dupSeen
                   /\ now - runs[lastReturn.run].createdAt < FreshTicks
           /\ ~lastReturn.dupFresh
                => /\ lastReturn.isNew
                   /\ lastReturn.run = Len(runs)
                   /\ lastReturn.run \notin lastReturn.dupSeen
                   /\ runs[lastReturn.run].status = "pending"
                   /\ runs[lastReturn.run].createdAt = now

\* A keyless call is answered with the second of two batches of one
\* fingerprint, the second created when the first, still eligible, was stale.
C5_Witness ==
    /\ lastReturn.outcome = "returned"
    /\ lastReturn.idempotencyKey = NoKey
    /\ ~lastReturn.isNew
    /\ lastReturn.run = 2
    /\ lastReturn.dupSeen = {2}
    /\ runs[1].contentHash = runs[2].contentHash
    /\ runs[1].idempotencyKey = NoKey
    /\ runs[2].idempotencyKey = NoKey
    /\ runs[1].status = "partial"
    /\ runs[2].createdAt - runs[1].createdAt = FreshTicks

(***************************************************************************)
(* C4: with a distributed limiter registered in every worker process, the  *)
(* number of fn dispatches during one quota window of the shared ledger,   *)
(* summed over all processes, never exceeds the limiter's points.          *)
(***************************************************************************)
C4_DispatchesWithinQuota ==
    (\A p \in Procs : useDistributed[p]) => winDispatched <= rlConfig.points

(***************************************************************************)
(* C7: a call whose consumption attempts are all denied gives up after a   *)
(* bounded number of retries (RetryBudget) and fails with the              *)
(* rate-limit-exhausted error.                                             *)
(***************************************************************************)
C7_GivesUpAfterRetryBudget ==
    \A p \in Procs, c \in RLSlots :
        rlCalls[p][c].denials > RetryBudget
            => rlCalls[p][c].pc = "done" /\ rlCalls[p][c].outcome = "RateLimitError"

(***************************************************************************)
(* C8: when consume fails because the shared store is unreachable, the     *)
(* call degrades to local-only limiting: fn is handed to the local limiter *)
(* instead of the call waiting for the store.                              *)
(***************************************************************************)
C8_DegradesToLocalLimiter ==
    \A p \in Procs, c \in RLSlots :
        rlCalls[p][c].storeError => rlCalls[p][c].pc \in {"queued", "running", "executing", "done"}

CBNext ==
    \/ \E c \in CBSlots, s \in Services : Execute(c, s)
    \/ \E c \in CBSlots, r \in OpResults : OperationResolves(c, r)
    \/ \E c \in CBSlots, e \in OpErrors : OperationRejects(c, e)
    \/ Tick

InitCB == now = 1 /\ CBInit /\ RLIdle /\ DDIdle /\ PRIdle /\ BOIdle

SpecCB == InitCB /\ [][CBNext]_vars

\* The circuit breaker with manual resets.
CBResetNext ==
    \/ CBNext
    \/ \E s \in Services : Reset(s)

SpecCBReset == InitCB /\ [][CBResetNext]_vars

(***************************************************************************)
(* C3: after failureThreshold consecutive failed executions (no success in *)
(* between) the circuit is OPEN, and an execute call made while the        *)
(* circuit is OPEN and less than openTimeout after it opened is rejected   *)
(* without invoking its operation.                                         *)
(***************************************************************************)
C3_OpensAfterThresholdAndRejects ==
    [][\A c \in CBSlots :
         LET s == cbCalls'[c].service IN
         /\ (/\ cbCalls[c].pc = "running" /\ cbCalls'[c].pc = "done"
             /\ cbCalls'[c].opOutcome \in OpErrors
             /\ cbStreak'[s] >= configs[s].failureThreshold)
            => circuits'[s].state = "OPEN"
         /\ (/\ cbCalls[c].pc # "running" /\ cbCalls'[c] # cbCalls[c]
             /\ circuits[s].state = "OPEN"
             /\ now - cbOpenedAt[s] < configs[s].timeout)
            => /\ cbCalls'[c].pc = "done"
               /\ cbCalls'[c].invoked = 0
               /\ cbCalls'[c].outcome = CircuitOpenError
               /\ circuits' = circuits]_vars

\* A circuit with failureThreshold 2 has opened after two consecutive failures
\* and has rejected a call made before the timeout elapsed.
C3_Witness ==
    \E c \in CBSlots, s \in Services :
        /\ configs[s].failureThreshold = 2
        /\ circuits[s].state = "OPEN"
        /\ cbStreak[s] = 2
        /\ cbCalls[c].pc = "done" /\ cbCalls[c].entryRejects
        /\ cbCalls[c].outcome = CircuitOpenError /\ cbCalls[c].invoked = 0

(***************************************************************************)
(* C6: execute on a circuit that is CLOSED or HALF_OPEN at the call        *)
(* invokes the operation exactly once and returns its result or rethrows   *)
(* its error unchanged; on a circuit that is OPEN with openTimeout not yet *)
(* elapsed it throws the circuit-open error and never invokes the          *)
(* operation.                                                              *)
(***************************************************************************)
C6_ExecuteTransparent ==
    \A c \in CBSlots :
        /\ cbCalls[c].pc = "running" => cbCalls[c].invoked = 1
        /\ (cbCalls[c].pc = "done" /\ cbCalls[c].entryState \in {"CLOSED", "HALF_OPEN"})
           => /\ cbCalls[c].invoked = 1
              /\ cbCalls[c].opOutcome \in OpResults \cup OpErrors
              /\ cbCalls[c].outcome = cbCalls[c].opOutcome
        /\ (cbCalls[c].pc # "idle" /\ cbCalls[c].entryState = "OPEN" /\ cbCalls[c].entryRejects)
           => /\ cbCalls[c].pc = "done"
              /\ cbCalls[c].invoked = 0
              /\ cbCalls[c].outcome = CircuitOpenError

\* One call entered in HALF_OPEN and rethrew its operation's error, another was
\* rejected by the OPEN circuit.
C6_Witness ==
    \E c, d \in CBSlots :
        /\ cbCalls[c].pc = "done" /\ cbCalls[c].entryState = "HALF_OPEN"
        /\ cbCalls[c].outcome \in OpErrors
        /\ cbCalls[d].pc = "done" /\ cbCalls[d].entryState = "OPEN"
        /\ cbCalls[d].entryRejects /\ cbCalls[d].outcome = CircuitOpenError


(***************************************************************************)
(* C12: a failed execution that settles while the circuit is HALF_OPEN     *)
(* moves the circuit to OPEN with failures = 0 and successes = 0, whatever *)
(* the number of successes counted in that HALF_OPEN period.               *)
(***************************************************************************)
C12_HalfOpenFailureReopens ==
    [][\A c \in CBSlots :
         LET s == cbCalls[c].service IN
         (/\ cbCalls[c].pc = "running" /\ cbCalls'[c].pc = "done"
          /\ cbCalls'[c].opOutcome \in OpErrors
          /\ circuits[s].state = "HALF_OPEN")
            => /\ circuits'[s].state = "OPEN"
               /\ circuits'[s].failures = 0
               /\ circuits'[s].successes = 0]_vars

\* An execution has failed in a HALF_OPEN period in which one success was
\* counted, and the circuit is OPEN with both counters at 0.
C12_Witness ==
    \E c \in CBSlots :
        /\ cbCalls[c].pc = "done"
        /\ cbCalls[c].opOutcome \in OpErrors
        /\ cbCalls[c].settleState = "HALF_OPEN"
        /\ cbCalls[c].settleSuccesses = 1
        /\ circuits[cbCalls[c].service] =
              [failures |-> 0, successes |-> 0, lastFailureTime |-> now, state |-> "OPEN"]


(***************************************************************************)
(* C13: a circuit that is OPEN does not become HALF_OPEN, and admits no    *)
(* call, before openTimeout has elapsed since it opened; an execute call   *)
(* made at or after that time moves it to HALF_OPEN with successes = 0 and *)
(* invokes its operation.                                                  *)
(***************************************************************************)
C13_HalfOpenAtOpenTimeout ==
    [][\A s \in Services :
         /\ (circuits[s].state = "OPEN" /\ circuits'[s].state # "OPEN")
               => /\ now - cbOpenedAt[s] >= configs[s].timeout
                  /\ circuits'[s].state = "HALF_OPEN"
                  /\ circuits'[s].successes = 0
         /\ \A c \in CBSlots :
              (/\ cbCalls[c].pc # "running" /\ cbCalls'[c] # cbCalls[c]
               /\ cbCalls'[c].service = s
               /\ circuits[s].state = "OPEN")
                 => IF now - cbOpenedAt[s] < configs[s].timeout
                    THEN cbCalls'[c].invoked = 0 /\ circuits'[s] = circuits[s]
                    ELSE /\ cbCalls'[c].invoked = 1
                         /\ circuits'[s].state = "HALF_OPEN"
                         /\ circuits'[s].successes = 0]_vars


(***************************************************************************)
(* C14: a successful execution that settles while the circuit is HALF_OPEN *)
(* adds 1 to the success counter; the circuit moves to CLOSED, with        *)
(* failures = 0 and successes = 0, when that makes the counter reach       *)
(* successThreshold, and leaves HALF_OPEN for CLOSED in no other step.     *)
(***************************************************************************)
C14_ClosesAtSuccessThreshold ==
    [][\A s \in Services :
         /\ \A c \in CBSlots :
              (/\ cbCalls[c].pc = "running" /\ cbCalls'[c].pc = "done"
               /\ cbCalls[c].service = s
               /\ cbCalls'[c].opOutcome \in OpResults
               /\ circuits[s].state = "HALF_OPEN")
                 => IF circuits[s].successes + 1 = configs[s].successThreshold
                    THEN /\ circuits'[s].state = "CLOSED"
                         /\ circuits'[s].failures = 0
                         /\ circuits'[s].successes = 0
                    ELSE /\ circuits'[s].state = "HALF_OPEN"
                         /\ circuits'[s].successes = circuits[s].successes + 1
                         /\ circuits'[s].successes < configs[s].successThreshold
         /\ (circuits[s].state = "HALF_OPEN" /\ circuits'[s].state = "CLOSED")
               => /\ circuits[s].successes + 1 = configs[s].successThreshold
                  /\ \E c \in CBSlots : /\ cbCalls[c].pc = "running" /\ cbCalls'[c].pc = "done"
                                        /\ cbCalls'[c].opOutcome \in OpResults]_vars

\* With successThreshold 2, the second success of a HALF_OPEN period has
\* closed the circuit.
C14_Witness ==
    \E c \in CBSlots :
        /\ configs[cbCalls[c].service].successThreshold = 2
        /\ cbCalls[c].pc = "done"
        /\ cbCalls[c].opOutcome \in OpResults
        /\ cbCalls[c].settleState = "HALF_OPEN"
        /\ cbCalls[c].settleSuccesses = 1
        /\ circuits[cbCalls[c].service].state = "CLOSED"
        /\ circuits[cbCalls[c].service].failures = 0
        /\ circuits[cbCalls[c].service].successes = 0


(***************************************************************************)
(* C15: in CLOSED, a failure that arrives more than failureWindow after    *)
(* the previously counted failure sets the failure counter to 1 instead of *)
(* adding to it, and so, with failureThreshold >= 2, does not open the     *)
(* circuit.                                                                *)
(***************************************************************************)
C15_WindowRestartsCount ==
    [][\A c \in CBSlots :
         LET s == cbCalls[c].service IN
         (/\ cbCalls[c].pc = "running" /\ cbCalls'[c].pc = "done"
          /\ cbCalls'[c].opOutcome \in OpErrors
          /\ circuits[s].state = "CLOSED"
          /\ circuits[s].failures > 0
          /\ now - circuits[s].lastFailureTime > configs[s].windowSize)
            => /\ circuits'[s].failures = 1
               /\ configs[s].failureThreshold >= 2 => circuits'[s].state = "CLOSED"]_vars


\* The provider recovers: operations fail only up to some point, which leaves
\* the clock room for the timeout that follows the last failure.
OperationRejectsBeforeRecovery(c, e) ==
    /\ now + configs[cbCalls[c].service].timeout <= MaxNow
    /\ OperationRejects(c, e)

RecoveryNext ==
    \/ \E c \in CBSlots, s \in Services : Execute(c, s)
    \/ \E c \in CBSlots, r \in OpResults : OperationResolves(c, r)
    \/ \E c \in CBSlots, e \in OpErrors : OperationRejectsBeforeRecovery(c, e)
    \/ Tick

\* Calls keep arriving, operations settle and time passes.
FairSpecCB ==
    /\ InitCB
    /\ [][RecoveryNext]_vars
    /\ WF_vars(\E c \in CBSlots, s \in Services : Execute(c, s))
    /\ WF_vars(\E c \in CBSlots, r \in OpResults : OperationResolves(c, r))
    /\ WF_vars(Tick)

(***************************************************************************)
(* C16: when calls keep arriving and every operation settled from some     *)
(* point on succeeds, a circuit that is OPEN leaves OPEN for HALF_OPEN     *)
(* only, and eventually is HALF_OPEN and then CLOSED, with no reset call.  *)
(***************************************************************************)
C16_SelfHeals ==
    /\ [][\A s \in Services :
            circuits[s].state = "OPEN" => circuits'[s].state \in {"OPEN", "HALF_OPEN"}]_vars
    /\ \A s \in Services :
          /\ (circuits[s].state = "OPEN") ~> (circuits[s].state = "HALF_OPEN")
          /\ (circuits[s].state = "OPEN") ~> (circuits[s].state = "CLOSED")

\* A circuit that had opened is CLOSED again, closed by the second success of
\* a HALF_OPEN period.
C16_Witness ==
    \E s \in Services, c \in CBSlots :
        /\ cbOpenedAt[s] >= 1
        /\ circuits[s].state = "CLOSED"
        /\ configs[s].successThreshold = 2
        /\ cbCalls[c].pc = "done"
        /\ cbCalls[c].service = s
        /\ cbCalls[c].entryState = "HALF_OPEN"
        /\ cbCalls[c].settleState = "HALF_OPEN"
        /\ cbCalls[c].settleSuccesses = 1
        /\ cbCalls[c].opOutcome \in OpResults


(***************************************************************************)
(* C17: a pair whose attempt failed with a rate-limit error makes no       *)
(* further attempt: it goes on to be recorded as failed, without backoff   *)
(* wait or retry, even if retry attempts remain.                           *)
(***************************************************************************)
C17_RateLimitNotRetried ==
    \A u \in UnitIds :
        units[u].lastError = "rateLimitError"
            => units[u].pc \in {"storeFailed", "failed", "thrown"}


\* The pairs started and not settled, backoff waits and the wait for the
\* rate limiter included.
startedUnits == {u \in UnitIds : units[u].pc \notin {"absent", "queued", "succeeded", "failed", "thrown"}}

(***************************************************************************)
(* C18: at most config.concurrencyLimit pairs of the run are started and   *)
(* not settled at any time, a pair is started only when fewer are, and a   *)
(* pair that waits is eventually started.                                  *)
(***************************************************************************)
C18_ConcurrencyLimit ==
    /\ [](Cardinality(startedUnits) <= prRun.concurrencyLimit)
    /\ [][\A u \in UnitIds :
            (units[u].pc = "queued" /\ units'[u].pc # "queued")
               => Cardinality(startedUnits) < prRun.concurrencyLimit]_vars
    /\ \A u \in UnitIds : (units[u].pc = "queued") ~> (units[u].pc # "queued")

\* With a limit of 1, the second pair waited for the first to settle and is
\* now in a backoff wait.
C18_Witness ==
    /\ prRun.concurrencyLimit = 1
    /\ units[1].pc \in {"succeeded", "failed", "thrown"}
    /\ units[2].pc = "backoff"


(***************************************************************************)
(* C19: the run's status is completed, partial or failed only when every   *)
(* pair of the run has settled: none is waiting to start, calling the      *)
(* provider, writing or in a backoff wait.                                 *)
(***************************************************************************)
C19_TerminalAfterAllUnits ==
    prRun.status \in {"completed", "partial", "failed"}
        => /\ prPc \in {"metrics", "done", "thrown"}
           /\ \A u \in UnitIds :
                 u <= prRun.totalPrompts => units[u].pc \in {"succeeded", "failed", "thrown"}

\* A run of two pairs is written partial after one pair succeeded and the
\* other failed.
C19_Witness ==
    /\ prRun.status = "partial"
    /\ prRun.totalPrompts = 2
    /\ units[1].pc = "succeeded"
    /\ units[2].pc = "failed"
    /\ responses[1] = [success |-> 1, failed |-> 0]
    /\ responses[2] = [success |-> 0, failed |-> 1]


(***************************************************************************)
(* C20: a createRun call that returns isNew = false returns a stored run   *)
(* from one of its two lookups, and neither that step nor any step of the  *)
(* lookups writes: the runs, prompts, brands and responses are unchanged   *)
(* and no processing is started.                                           *)
(***************************************************************************)
C20_DedupHitHasNoEffect ==
    [][/\ \A c \in CRSlots :
            (crCalls[c].pc \in {"idle", "idem", "hash"} /\ crCalls'[c] # crCalls[c])
               => /\ runs' = runs
                  /\ promptDocs' = promptDocs
                  /\ brandDocs' = brandDocs
                  /\ UNCHANGED prVars
       /\ (lastReturn'.outcome = "returned" /\ ~lastReturn'.isNew)
            => /\ \E c \in CRSlots : crCalls[c].pc \in {"idem", "hash"} /\ crCalls'[c].pc = "idle"
               /\ lastReturn'.run \in 1..Len(runs)
               /\ runs' = runs
               /\ promptDocs' = promptDocs
               /\ brandDocs' = brandDocs
               /\ UNCHANGED prVars]_vars

\* A call with an idempotency key is answered with the run that carries the
\* key, which has failed; there is no other run.
C20_Witness ==
    /\ lastReturn.outcome = "returned"
    /\ ~lastReturn.isNew
    /\ lastReturn.idempotencyKey # NoKey
    /\ Len(runs) = 1
    /\ lastReturn.run = 1
    /\ runs[1].idempotencyKey = lastReturn.idempotencyKey
    /\ runs[1].status = "failed"


(***************************************************************************)
(* C21: a run that is failed or cancelled is never the run a createRun     *)
(* call is answered with on account of its fingerprint, however recent it  *)
(* is: the call creates a run (isNew = true) unless a run with its         *)
(* fingerprint that is neither failed nor cancelled and younger than 5     *)
(* minutes exists (or a run carries its idempotency key).                  *)
(***************************************************************************)
C21_FailedNeverSuppresses ==
    lastReturn.outcome = "returned" =>
        LET r == lastReturn.run
            byKey == /\ lastReturn.idempotencyKey # NoKey
                     /\ runs[r].idempotencyKey = lastReturn.idempotencyKey
        IN /\ (~lastReturn.isNew /\ ~byKey)
                => /\ runs[r].status \notin {"failed", "cancelled"}
                   /\ now - runs[r].createdAt < FreshTicks
                   /\ lastReturn.dupFresh
           /\ (~lastReturn.dupFresh /\ ~lastReturn.isNew) => byKey

\* A call is answered with a new run although a failed run with the same
\* fingerprint was created in the same tick.
C21_Witness ==
    /\ lastReturn.outcome = "returned"
    /\ lastReturn.isNew
    /\ lastReturn.idempotencyKey = NoKey
    /\ lastReturn.run = 2
    /\ runs[1].status = "failed"
    /\ runs[1].contentHash = runs[2].contentHash
    /\ runs[2].createdAt = runs[1].createdAt


(***************************************************************************)
(* C22: in every reachable state at most one run carries a given           *)
(* idempotency key, also when two createRun calls with the same new key    *)
(* overlap in time.                                                        *)
(***************************************************************************)
C22_KeyOnOneRun ==
    \A a \in RunIds, b \in RunIds :
        (a # b /\ runs[a].idempotencyKey # NoKey)
            => runs[a].idempotencyKey # runs[b].idempotencyKey


(***************************************************************************)
(* C23: findOrCreate calls for one prompt text or brand name, whether they *)
(* come from overlapping createRun calls or from a repeated entry of one   *)
(* call, converge to one record: no text is stored twice and every call    *)
(* gets the record, so no createRun call rejects with the duplicate-key    *)
(* error of the unique index.                                              *)
(***************************************************************************)
C23_FindOrCreateConverges ==
    /\ \A t \in Texts : promptDocs[t] <= 1 /\ brandDocs[t] <= 1
    /\ lastReturn.outcome = "thrown" => lastReturn.error # "duplicateKey"


(***************************************************************************)
(* C24: after any sequence of schedule, updateConfig and createLimiter     *)
(* calls, getStats(key).running is at most the key's current               *)
(* maxConcurrent.                                                          *)
(***************************************************************************)
C24_RunningWithinMaxConcurrent ==
    \A p \in Procs : getStats(p) <= rlConfig.maxConcurrent


(***************************************************************************)
(* C25: the dedup gate is not transactional.  Two overlapping createRun    *)
(* calls with identical content and no existing run can both pass the      *)
(* content-hash lookup before either run is inserted, so a state with two  *)
(* fresh non-failed runs of one fingerprint is reachable (C25_Witness).    *)
(* It is reachable in this way only: a call that inserts a run whose       *)
(* fingerprint a fresh non-failed run already carries did its lookup       *)
(* before that run was inserted (it saw no run with its fingerprint).      *)
(***************************************************************************)
C25_BothPassBeforeEitherPersists ==
    (/\ lastReturn.outcome = "returned"
     /\ lastReturn.isNew
     /\ \E a \in RunIds : /\ a # lastReturn.run
                          /\ runs[a].contentHash = runs[lastReturn.run].contentHash
                          /\ runs[a].status \notin {"failed", "cancelled"}
                          /\ now - runs[a].createdAt < FreshTicks)
        => lastReturn.dupSeen = {}

\* Two fresh pending runs with one fingerprint, the second just inserted.
C25_Witness ==
    /\ Len(runs) = 2
    /\ runs[1].contentHash = runs[2].contentHash
    /\ \A a \in RunIds : /\ runs[a].status \notin {"failed", "cancelled"}
                         /\ now - runs[a].createdAt < FreshTicks
    /\ lastReturn.outcome = "returned"
    /\ lastReturn.isNew
    /\ lastReturn.run = 2


(***************************************************************************)
(* C26: the delay before a unit's retry, min(1000 * 2^(n-1), 10000) +      *)
(* jitter with jitter in [0, 1000), is non-negative for every retry n >= 1 *)
(* and, whatever the jitter values, does not decrease from one retry to    *)
(* the next up to the retry at which the 10000 ms cap is reached.          *)
(***************************************************************************)
C26_BackoffMonotoneToCap ==
    \A n \in 1..Len(delays) :
        /\ delays[n] >= 0
        /\ (n + 1 <= Len(delays) /\ n + 1 <= capAttempt) => delays[n] <= delays[n + 1]

\* The tightest case: the greatest jitter before the cap, the least at the cap.
C26_Witness ==
    /\ Len(delays) >= capAttempt
    /\ delays[capAttempt - 1] = baseDelay(capAttempt - 1) + JitterRangeMs - 1
    /\ delays[capAttempt] = MaxDelayMs


(***************************************************************************)
(* C27: once a success response is recorded for a unit the unit is         *)
(* terminal: no later step calls the provider for it or writes another     *)
(* response record for it, whatever happens in the rest of the attempt     *)
(* (the writes of the brand-mention records included).                     *)
(***************************************************************************)
C27_TerminalAfterSuccessRecord ==
    [][\A u \in UnitIds :
          responses[u].success > 0
              => /\ units'[u].providerCalls = units[u].providerCalls
                 /\ responses'[u] = responses[u]]_vars


(***************************************************************************)
(* C28: once the stored status of a run is completed, partial or failed,   *)
(* no later write changes any field of the run document (status, counters  *)
(* or metrics).                                                            *)
(***************************************************************************)
C28_ImmutableOnceTerminal ==
    [][prRun.status \in {"completed", "partial", "failed"} => prRun' = prRun]_vars

(***************************************************************************)
(* C29: an attempt of a unit that the open circuit rejects is not retried: *)
(* after the rejection the unit makes no further attempt and is recorded   *)
(* as failed with the circuit-open error.                                  *)
(***************************************************************************)
C29_CircuitOpenNotRetried ==
    \A u \in UnitIds :
        units[u].lastError = "circuitOpen"
            => units[u].pc \in {"storeFailed", "failed", "thrown"}


(***************************************************************************)
(* C30: createRun fails only before any unit starts (a dedup lookup, the   *)
(* interning of prompts and brands, the insert).  An error raised later,   *)
(* during the asynchronous processing (status updates, units, metrics),    *)
(* never reaches the caller of createRun, who has received the new run     *)
(* with isNew = true: whatever processRun and its units do, the caller's   *)
(* result is that run.                                                     *)
(***************************************************************************)
C30_ProcessingErrorsStayInside ==
    /\ lastReturn = createRunResult
    /\ lastReturn.outcome = "returned" /\ lastReturn.isNew

\* processRun has rejected, and a unit's task too.
C30_Witness ==
    /\ prPc = "thrown"
    /\ \E u \in UnitIds : units[u].pc = "thrown"
    /\ lastReturn.outcome = "returned"
    /\ lastReturn.isNew


(***************************************************************************)
(* C31: the fingerprint depends only on the multisets of prompt texts,     *)
(* brand names and provider:model pairs.  Two request bodies with equal    *)
(* multisets have the same fingerprint whatever the order of the lists,    *)
(* the field order of the model entries, the notes, the idempotency key    *)
(* and the config; bodies with different multisets have different          *)
(* fingerprints.                                                           *)
(***************************************************************************)
multiset(list) ==
    [x \in {list[i] : i \in DOMAIN list} |-> Cardinality({i \in DOMAIN list : list[i] = x})]

providerModelPairs(models) == [i \in DOMAIN models |-> providerModel(models[i])]

sameContent(a, b) ==
    /\ multiset(a.prompts) = multiset(b.prompts)
    /\ multiset(a.brands) = multiset(b.brands)
    /\ multiset(providerModelPairs(a.models)) = multiset(providerModelPairs(b.models))

C31_FingerprintOfMultisets ==
    \A i \in DOMAIN hashed, j \in DOMAIN hashed :
        sameContent(hashed[i].dto, hashed[j].dto)
            <=> hashed[i].contentHash = hashed[j].contentHash


(***************************************************************************)
(* C32: every run accepted as new reaches status completed, partial or     *)
(* failed in the end, provided every provider call settles, the store      *)
(* accepts the writes of processRun, and a denied quota is refilled in the *)
(* end.                                                                    *)
(***************************************************************************)
C32_RunTerminates ==
    [](prPc # "thrown") => <>(prRun.status \in {"completed", "partial", "failed"})

\* A run of two units, one succeeded and one failed after its retries, has its
\* final status.
C32_Witness ==
    /\ prRun.status = "partial"
    /\ prRun.totalPrompts = 2
    /\ \E u \in UnitIds : units[u].pc = "succeeded"
    /\ \E u \in UnitIds : units[u].pc = "failed" /\ units[u].retryCount > 1


(***************************************************************************)
(* C33: after a createRun call that carried idempotency key K has          *)
(* returned, a run whose idempotencyKey is K exists and is the run that    *)
(* was returned, also when the call was answered by the content-hash       *)
(* lookup.                                                                 *)
(***************************************************************************)
C33_ReturnedRunCarriesKey ==
    (lastReturn.outcome = "returned" /\ lastReturn.idempotencyKey # NoKey)
        => runs[lastReturn.run].idempotencyKey = lastReturn.idempotencyKey


(***************************************************************************)
(* C34: only executions admitted while the circuit is HALF_OPEN count      *)
(* toward successThreshold.  A call admitted while the circuit was CLOSED  *)
(* whose operation resolves while the circuit is HALF_OPEN does not        *)
(* advance the success count and does not close the circuit.               *)
(***************************************************************************)
C34_OnlyHalfOpenAdmissionsCount ==
    [][\A c \in CBSlots :
          (/\ cbCalls[c].pc = "running" /\ cbCalls'[c].pc = "done"
           /\ cbCalls'[c].opOutcome \in OpResults
           /\ cbCalls[c].entryState = "CLOSED"
           /\ circuits[cbCalls[c].service].state = "HALF_OPEN")
              => /\ circuits'[cbCalls[c].service].successes
                       = circuits[cbCalls[c].service].successes
                 /\ circuits'[cbCalls[c].service].state = "HALF_OPEN"]_vars


(***************************************************************************)
(* C35: while a circuit is OPEN, rejected calls and completions of calls   *)
(* admitted before it opened leave the circuit record unchanged (state,    *)
(* failures, successes and lastFailureTime), so the time from which        *)
(* HALF_OPEN can be entered is fixed when the circuit opens.               *)
(***************************************************************************)
C35_OpenRecordFrozen ==
    [][\A s \in Services :
          (/\ circuits[s].state = "OPEN"
           /\ ~\E c \in CBSlots : cbCalls[c].pc # "running" /\ cbCalls'[c].pc = "running")
              => circuits'[s] = circuits[s]]_vars


(***************************************************************************)
(* C36: for every configured retryAttempts >= 0 a unit makes at most       *)
(* retryAttempts + 1 provider calls; with retryAttempts = 0 a failing unit *)
(* is attempted once and never retried.                                    *)
(***************************************************************************)
C36_CallsWithinConfiguredRetries ==
    \A u \in UnitIds : units[u].providerCalls <= prRun.configuredRetryAttempts + 1


(***************************************************************************)
(* C37: for every registered circuit (failureThreshold >= 1 and            *)
(* successThreshold >= 1), in every reachable state, manual resets         *)
(* included: failures < failureThreshold whenever the state is CLOSED,     *)
(* successes < successThreshold always, and successes = 0 whenever the     *)
(* state is CLOSED or OPEN.                                                *)
(***************************************************************************)
C37_CountersWithinThresholds ==
    \A s \in Services :
        /\ circuits[s].state = "CLOSED" => circuits[s].failures < configs[s].failureThreshold
        /\ circuits[s].successes < configs[s].successThreshold
        /\ circuits[s].state \in {"CLOSED", "OPEN"} => circuits[s].successes = 0

\* The counters at their greatest values: a HALF_OPEN circuit one success
\* short of closing, after a failure was counted toward a threshold of 2.
C37_Witness ==
    \E s \in Services :
        /\ configs[s].successThreshold = 2 /\ configs[s].failureThreshold = 2
        /\ circuits[s].state = "HALF_OPEN"
        /\ circuits[s].successes = 1


(***************************************************************************)
(* C38: a run without units (no prompts, or no models) still terminates:   *)
(* its status goes from pending to running and from running to completed,  *)
(* with completedPrompts = failedPrompts = totalPrompts = 0, and it gets   *)
(* there when the store accepts the writes of processRun.                  *)
(***************************************************************************)
C38_EmptyRunCompletes ==
    /\ [][(prRun.totalPrompts = 0 /\ prRun'.status # prRun.status)
             => /\ <<prRun.status, prRun'.status>>
                      \in {<<"pending", "running">>, <<"running", "completed">>}
                /\ prRun'.completedPrompts = 0
                /\ prRun'.failedPrompts = 0
                /\ prRun'.totalPrompts = 0]_vars
    /\ (prRun.totalPrompts = 0 /\ [](prPc # "thrown"))
          => <>(/\ prRun.status = "completed"
                /\ prRun.completedPrompts = 0
                /\ prRun.failedPrompts = 0)

\* processRun has finished for a run without units.
C38_Witness ==
    /\ prRun.totalPrompts = 0
    /\ prRun.status = "completed"
    /\ prRun.completedPrompts = 0 /\ prRun.failedPrompts = 0
    /\ prPc = "done"

=============================================================================
